---- MODULE Spec2Model ----
(***************************************************************************)
(* Model of mind_gym_mvp.py: the SomaticState governor, the two minds, the *)
(* dialogue node, synthesize and the MindGym.think async generator.        *)
(*                                                                         *)
(* Numbers.  The floats of SomaticState are fixed-point integers counted   *)
(* in 1/10000: 0.5 is 5000, 1.0 is One.  A product is divided back by One  *)
(* after each multiplication, in the order the code multiplies.            *)
(*                                                                         *)
(* Texts.  A text is a sequence of tokens.  The substring tests of the     *)
(* code ("confused" in thought.lower(), "!" in thought, "INTUITIVE:" in    *)
(* text) are token membership tests, str.split is a split at a token.      *)
(*                                                                         *)
(* Control.  MindGym.think is an async generator: it runs from one         *)
(* suspension point (a yield, or an await asyncio.sleep inside a callee)   *)
(* to the next without interruption.  There is one action per resumption.  *)
(***************************************************************************)
EXTENDS Integers, Sequences, FiniteSets, TLC

VARIABLES
    client,     \* module global `client`: TRUE = API client, FALSE = mock mode
    vocab,      \* the texts the generation backend may return, by phase
    nested,     \* TRUE: a second task consumes a second generator of the same MindGym
    somatic,    \* MindGym.somatic, the SomaticState the attribute refers to
    frame,      \* frame[r]: locals and suspension point of generator r of think()
    events,     \* events[r]: the dicts generator r has yielded, in order
    trace,      \* trace[r]: history of generate / update / yield / raise steps
    started     \* number of MindGym.think generators started so far

vars == <<client, vocab, nested, somatic, frame, events, trace, started>>

-----------------------------------------------------------------------------
(* Bounds *)

\* think() generators started on the one MindGym object
MaxStarts == 2

\* The generator objects that may be alive at the same time
Runs == {"A", "B"}

-----------------------------------------------------------------------------
(* Fixed-point numbers *)

One == 10000

Min(a, b) == IF a <= b THEN a ELSE b

\* x * 0.9 and x * 1.1
TimesNineTenths(x) == (x * 9) \div 10
TimesElevenTenths(x) == (x * 11) \div 10

-----------------------------------------------------------------------------
(* Texts *)

Has(text, tok) == \E i \in DOMAIN text : text[i] = tok

\* str.lower(), token by token
LowerTok(tok) ==
    CASE tok = "Confused" -> "confused"
      [] tok = "Uncertain" -> "uncertain"
      [] tok = "Clear" -> "clear"
      [] tok = "Understand" -> "understand"
      [] tok = "INTUITIVE:" -> "intuitive:"
      [] tok = "ANALYTICAL:" -> "analytical:"
      [] OTHER -> tok

Lower(text) == [i \in DOMAIN text |-> LowerTok(text[i])]


\* str.strip() of the whitespace token, at both ends
RECURSIVE LStrip(_)
LStrip(text) ==
    IF text # <<>> /\ Head(text) = " " THEN LStrip(Tail(text)) ELSE text

RECURSIVE RStrip(_)
RStrip(text) ==
    IF text # <<>> /\ text[Len(text)] = " "
    THEN RStrip(SubSeq(text, 1, Len(text) - 1))
    ELSE text

Strip(text) == RStrip(LStrip(text))

\* str.replace(tok, ""): every occurrence of the token is removed
Remove(text, tok) == SelectSeq(text, LAMBDA t : t # tok)

\* Position of the first occurrence of tok in text, 0 when there is none
FirstIndex(text, tok) ==
    IF Has(text, tok)
    THEN CHOOSE i \in DOMAIN text :
            text[i] = tok /\ \A j \in 1..(i - 1) : text[j] # tok
    ELSE 0

\* str.split(tok): the pieces between the occurrences of tok
RECURSIVE Split(_, _)
Split(text, tok) ==
    LET i == FirstIndex(text, tok)
    IN  IF i = 0
        THEN <<text>>
        ELSE <<SubSeq(text, 1, i - 1)>> \o Split(SubSeq(text, i + 1, Len(text)), tok)

-----------------------------------------------------------------------------
(* SomaticState *)

\* The dataclass defaults: SomaticState()
SomaticState == [arousal |-> 5000, valence |-> 0, coherence |-> 5000, tension |-> 0]

\* The stress metric without the division by 2
stress_level_NotHalved(s) ==
    (((s.arousal * (One - s.valence)) \div One) * (One - s.coherence)) \div One

\* (arousal * (1 - valence) / 2) * (1 - coherence)
stress_level(s) ==
    (((s.arousal * (One - s.valence)) \div (2 * One)) * (One - s.coherence)) \div One

\* The three `if` statements and the tension line, one after the other
AfterConfusion(s, thought) ==
    IF Has(Lower(thought), "confused") \/ Has(Lower(thought), "uncertain")
    THEN [s EXCEPT !.coherence = TimesNineTenths(@), !.arousal = @ + 1000]
    ELSE s

AfterClarity(s, thought) ==
    IF Has(Lower(thought), "clear") \/ Has(Lower(thought), "understand")
    THEN [s EXCEPT !.coherence = Min(One, TimesElevenTenths(@))]
    ELSE s

\* The arousal rule applied to every thought, with or without a "!"
AfterExclamation_Always(s, thought) == [s EXCEPT !.arousal = Min(One, @ + 500)]

AfterExclamation(s, thought) ==
    IF Has(thought, "!")
    THEN [s EXCEPT !.arousal = Min(One, @ + 500)]
    ELSE s

\* The tension line left out
AfterTension_Forgotten(s) == s

AfterTension(s) == [s EXCEPT !.tension = Min(One, @ + 200)]

update_from_thought(s, thought) ==
    AfterTension(AfterExclamation(AfterClarity(AfterConfusion(s, thought), thought), thought))

\* The tension threshold mistyped as 0.09
needs_rest_LowTension(s) == stress_level(s) > 8000 \/ s.tension > 900

needs_rest(s) == stress_level(s) > 8000 \/ s.tension > 9000

-----------------------------------------------------------------------------
(* The generation backend and the mock texts *)

\* The queries main() offers, by the markers they contain
Queries == { <<"happiness">>, <<"Confused", "!">> }

\* What client.messages.create may return for the prompt of a fragment: no marker, a
\* confusion marker, a clarity marker with an exclamation mark, all three markers, a
\* confusion marker with an exclamation mark
FragmentTexts ==
    { <<"flow">>,
      <<"confused">>,
      <<"Understand", "!">>,
      <<"Uncertain", "clear", "!">>,
      <<"confused", "!">> }

\* What it may return for the prompt of the analysis
AnalysisTexts == { <<"flow">>, <<"confused">> }

\* What it may return for the prompt of a dialogue round: both speaker tags, no tag,
\* one tag only
ExchangeTexts ==
    { <<"INTUITIVE:", "confused", "ANALYTICAL:", "uncertain">>,
      <<"confused">>,
      <<"ANALYTICAL:", "flow">> }

\* The texts of the backend, by the phase whose prompt it answers
Texts ==
    [intuitive |-> FragmentTexts, analytical |-> AnalysisTexts,
     dialogue |-> ExchangeTexts, synthesis |-> {<<"balance">>}]

\* The backend that returns the string t whatever the prompt
Canned(t) == [intuitive |-> {t}, analytical |-> {t}, dialogue |-> {t}, synthesis |-> {t}]

\* The canned strings of the stand-in backends used with two generators: each
\* such backend returns the same string on every call
SharedTexts ==
    { <<"flow">>,
      <<"Understand", "!">>,
      <<"INTUITIVE:", "confused", "ANALYTICAL:", "confused">> }

\* The four mock associations of IntuitiveMind.think
associations(query) ==
    { <<"Pattern:">> \o query \o <<"water">>,
      <<"Feeling:">> \o query,
      <<"Image:", "spiral">> \o query,
      <<"Instinct:">> \o query \o <<"else">> }

MockAnalysis(query) == <<"Analyzing">> \o query \o <<"equilibrium">>

MockDialogue(query) ==
    << [speaker |-> "intuitive", content |-> <<"But">> \o query \o <<"fluid">>],
       [speaker |-> "analytical", content |-> <<"Fluidity", "structure">>] >>

MockSynthesis(query) == <<"Synthesis:">> \o query \o <<"balance">>

-----------------------------------------------------------------------------
(* Events and history *)

Absent == 0 - 1

\* {"phase": p, "status": "starting"}
StartingEvent(p) ==
    [phase |-> p, kind |-> "starting", thought |-> <<>>, speaker |-> "",
     stress |-> Absent, coherence |-> Absent, tension |-> Absent, needs_rest |-> FALSE]

\* {"phase": "intuitive", "thought": ..., "somatic": {"stress", "coherence"}}
IntuitiveEvent(thought, s) ==
    [phase |-> "intuitive", kind |-> "thought", thought |-> thought, speaker |-> "",
     stress |-> stress_level(s), coherence |-> s.coherence, tension |-> Absent,
     needs_rest |-> FALSE]

\* {"phase": "analytical", "thought": ..., "somatic": {"stress", "tension"}}
AnalyticalEvent(thought, s) ==
    [phase |-> "analytical", kind |-> "thought", thought |-> thought, speaker |-> "",
     stress |-> stress_level(s), coherence |-> Absent, tension |-> s.tension,
     needs_rest |-> FALSE]

\* {"phase": "dialogue", "speaker": ..., "thought": ..., "somatic": {"coherence"}}
DialogueEvent(exchange, s) ==
    [phase |-> "dialogue", kind |-> "thought", thought |-> exchange.content,
     speaker |-> exchange.speaker,
     stress |-> Absent, coherence |-> s.coherence, tension |-> Absent,
     needs_rest |-> FALSE]

\* {"phase": "complete", "synthesis": ..., "metrics": {...}}; the elapsed time is left out
CompleteEvent(synthesis, s) ==
    [phase |-> "complete", kind |-> "complete", thought |-> synthesis, speaker |-> "",
     stress |-> stress_level(s), coherence |-> s.coherence, tension |-> Absent,
     needs_rest |-> needs_rest(s)]

\* One step of the history of a generator; s is the SomaticState at that moment
Step(op, phase, text, s) ==
    [op |-> op, phase |-> phase, text |-> text, made |-> 0, prompt |-> <<>>,
     temperature |-> Absent, stress |-> stress_level(s), somatic |-> s]

\* A call of client.messages.create (or the mock branch): the text it returned, the
\* number of artifacts made of it, what the prompt embeds, the sampling temperature
Generate(phase, text, made, prompt, temperature) ==
    [op |-> "generate", phase |-> phase, text |-> text, made |-> made,
     prompt |-> prompt, temperature |-> temperature, stress |-> stress_level(somatic),
     somatic |-> somatic]

-----------------------------------------------------------------------------
(* Generator frames *)

NewFrame ==
    [pc |-> "new", query |-> <<>>, burst_size |-> 0, intuitive_thoughts |-> <<>>,
     analytical_thought |-> <<>>, dialogue_rounds |-> 0, dialogue |-> <<>>,
     i |-> 0, round_num |-> 0, emitted |-> 0]

Init ==
    /\ client \in BOOLEAN
    /\ vocab = Texts
    /\ nested = FALSE
    /\ somatic = SomaticState
    /\ frame = [r \in Runs |-> NewFrame]
    /\ events = [r \in Runs |-> <<>>]
    /\ trace = [r \in Runs |-> <<>>]
    /\ started = 0

InitShared ==
    /\ client = TRUE
    /\ \E t \in SharedTexts : vocab = Canned(t)
    /\ nested = TRUE
    /\ somatic = SomaticState
    /\ frame = [r \in Runs |-> NewFrame]
    /\ events = [r \in Runs |-> <<>>]
    /\ trace = [r \in Runs |-> <<>>]
    /\ started = 0

\* The texts of the backend of the runs followed to their end: the length of a run
\* depends on the text only through the tags of the dialogue responses
LiveTexts ==
    [intuitive |-> {<<"flow">>, <<"confused">>}, analytical |-> {<<"flow">>},
     dialogue |-> ExchangeTexts, synthesis |-> {<<"balance">>}]

InitLive ==
    /\ client \in BOOLEAN
    /\ vocab = LiveTexts
    /\ nested = FALSE
    /\ somatic = SomaticState
    /\ frame = [r \in Runs |-> NewFrame]
    /\ events = [r \in Runs |-> <<>>]
    /\ trace = [r \in Runs |-> <<>>]
    /\ started = 0

Active(r) == frame[r].pc \notin {"new", "closed", "raised"}

\* The consumer that drives generator r can resume it now.  The main task consumes
\* generator A.  With `nested`, a second task starts generator B while A is
\* suspended (at a yield or in a sleep) and consumes B to its end before A goes on.
Resumable(r) == IF r = "A" THEN ~Active("B") ELSE nested

\* gym.think(query) can be called and its generator started in slot r now: the main
\* task runs its queries one after the other, the second task runs one query
CanStart(r) ==
    IF r = "A"
    THEN /\ frame[r].pc \in {"new", "closed", "raised"}
         /\ nested => frame[r].pc = "new"
    ELSE /\ frame[r].pc = "new"
         /\ Active("A")

\* The exception is swallowed and the generator returns: the sequence just ends
Raise_Swallowed(r, phase) ==
    /\ frame' = [frame EXCEPT ![r].pc = "closed"]
    /\ trace' = [trace EXCEPT ![r] = Append(@, Step("return", phase, <<>>, somatic))]
    /\ UNCHANGED <<client, vocab, nested, somatic, events, started>>

\* The failure is noted and the generator stays where it is, free to call again
Raise_Retried(r, phase) ==
    /\ trace' = [trace EXCEPT ![r] = Append(@, Step("raise", phase, <<>>, somatic))]
    /\ UNCHANGED <<client, vocab, nested, somatic, frame, events, started>>

\* An exception leaves the generator: nothing is yielded, the consumer's
\* __anext__ raises
Raise(r, phase) ==
    /\ frame' = [frame EXCEPT ![r].pc = "raised"]
    /\ trace' = [trace EXCEPT ![r] = Append(@, Step("raise", phase, <<>>, somatic))]
    /\ UNCHANGED <<client, vocab, nested, somatic, events, started>>

\* think() without line 230: the state of the run before is kept
Start_NoReset(r) ==
    /\ Resumable(r)
    /\ CanStart(r)
    /\ started < MaxStarts
    /\ \E q \in Queries :
        /\ frame' = [frame EXCEPT ![r] =
                        [NewFrame EXCEPT !.pc = "intuitive_starting", !.query = q]]
        /\ events' = [events EXCEPT ![r] = <<StartingEvent("intuitive")>>]
        /\ trace' = [trace EXCEPT ![r] =
                        <<Step("yield", "intuitive", <<>>, somatic)>>]
    /\ started' = started + 1
    /\ UNCHANGED <<client, vocab, nested, somatic>>

\* think(), first resumption: lines 226-233
Start(r) ==
    /\ Resumable(r)
    /\ CanStart(r)
    /\ started < MaxStarts
    /\ \E q \in Queries :
        /\ somatic' = SomaticState
        /\ frame' = [frame EXCEPT ![r] =
                        [NewFrame EXCEPT !.pc = "intuitive_starting", !.query = q]]
        /\ events' = [events EXCEPT ![r] = <<StartingEvent("intuitive")>>]
        /\ trace' = [trace EXCEPT ![r] =
                        <<Step("reset", "intuitive", <<>>, SomaticState),
                          Step("yield", "intuitive", <<>>, SomaticState)>>]
    /\ started' = started + 1
    /\ UNCHANGED <<client, vocab, nested>>

-----------------------------------------------------------------------------
(* IntuitiveMind.think *)

\* The burst size with the threshold mistyped as 0.05
burst_size_LowThreshold(s) == IF stress_level(s) < 500 THEN 3 ELSE 2

\* The burst size without the stress test
burst_size_Always3(s) == 3

\* burst_size = 3 if somatic.stress_level() < 0.5 else 2
burst_size(s) == IF stress_level(s) < 5000 THEN 3 ELSE 2

\* Each fragment is applied to the state as soon as it is generated
IntuitiveFragment_Eager(r, size) ==
    LET f == frame[r]
    IN  \/ /\ \E t \in (IF client THEN vocab.intuitive ELSE associations(f.query)) :
                /\ frame' = [frame EXCEPT ![r].pc = "intuitive_sleep",
                                          ![r].burst_size = size,
                                          ![r].intuitive_thoughts = Append(@, t),
                                          ![r].i = f.i + 1]
                /\ somatic' = update_from_thought(somatic, t)
                /\ trace' = [trace EXCEPT ![r] = Append(@,
                                IF client
                                THEN Generate("intuitive", t, 1, <<f.query>>, 9000)
                                ELSE Generate("intuitive", t, 1, <<>>, Absent))]
           /\ UNCHANGED <<client, vocab, nested, events, started>>
        \/ /\ client
           /\ Raise(r, "intuitive")

\* One pass of the loop body, lines 68-92: a fragment is appended, or the call raises
IntuitiveFragment(r, size) ==
    LET f == frame[r]
    IN  \/ /\ \E t \in (IF client THEN vocab.intuitive ELSE associations(f.query)) :
                /\ frame' = [frame EXCEPT ![r].pc = "intuitive_sleep",
                                          ![r].burst_size = size,
                                          ![r].intuitive_thoughts = Append(@, t),
                                          ![r].i = f.i + 1]
                /\ trace' = [trace EXCEPT ![r] = Append(@,
                                IF client
                                THEN Generate("intuitive", t, 1, <<f.query>>, 9000)
                                ELSE Generate("intuitive", t, 1, <<>>, Absent))]
           /\ UNCHANGED <<client, vocab, nested, somatic, events, started>>
        \/ /\ client
           /\ Raise(r, "intuitive")

\* think() resumed after the "starting" marker: line 234 calls IntuitiveMind.think,
\* which fixes burst_size and runs the first pass up to the sleep
IntuitiveEnter(r) ==
    /\ Resumable(r)
    /\ frame[r].pc = "intuitive_starting"
    /\ IntuitiveFragment(r, burst_size(somatic))

\* Resumed from the sleep with passes left
IntuitiveNext(r) ==
    /\ Resumable(r)
    /\ frame[r].pc = "intuitive_sleep"
    /\ frame[r].i < frame[r].burst_size
    /\ IntuitiveFragment(r, frame[r].burst_size)

\* The thought is yielded without the call of update_from_thought
IntuitiveEmit_NoUpdate(r) ==
    LET f == frame[r]
        thought == f.intuitive_thoughts[f.emitted + 1]
    IN  /\ Resumable(r)
        /\ \/ f.pc = "intuitive_sleep" /\ f.i = f.burst_size
           \/ f.pc = "intuitive_thought"
        /\ f.emitted < Len(f.intuitive_thoughts)
        /\ frame' = [frame EXCEPT ![r].pc = "intuitive_thought",
                                  ![r].emitted = f.emitted + 1]
        /\ events' = [events EXCEPT ![r] = Append(@, IntuitiveEvent(thought, somatic))]
        /\ trace' = [trace EXCEPT ![r] =
                        Append(@, Step("yield", "intuitive", thought, somatic))]
        /\ UNCHANGED <<client, vocab, nested, somatic, started>>

\* Lines 236-245: the next thought of the list is applied to the state and yielded
IntuitiveEmit(r) ==
    LET f == frame[r]
        thought == f.intuitive_thoughts[f.emitted + 1]
        s == update_from_thought(somatic, thought)
    IN  /\ Resumable(r)
        /\ \/ f.pc = "intuitive_sleep" /\ f.i = f.burst_size
           \/ f.pc = "intuitive_thought"
        /\ f.emitted < Len(f.intuitive_thoughts)
        /\ somatic' = s
        /\ frame' = [frame EXCEPT ![r].pc = "intuitive_thought",
                                  ![r].emitted = f.emitted + 1]
        /\ events' = [events EXCEPT ![r] = Append(@, IntuitiveEvent(thought, s))]
        /\ trace' = [trace EXCEPT ![r] =
                        @ \o <<Step("update", "intuitive", thought, s),
                               Step("yield", "intuitive", thought, s)>>]
        /\ UNCHANGED <<client, vocab, nested, started>>

-----------------------------------------------------------------------------
(* AnalyticalMind.think *)

\* Line 248
AnalyticalStart(r) ==
    LET f == frame[r]
    IN  /\ Resumable(r)
        /\ f.pc = "intuitive_thought"
        /\ f.emitted = Len(f.intuitive_thoughts)
        /\ frame' = [frame EXCEPT ![r].pc = "analytical_starting", ![r].emitted = 0]
        /\ events' = [events EXCEPT ![r] = Append(@, StartingEvent("analytical"))]
        /\ trace' = [trace EXCEPT ![r] = Append(@, Step("yield", "analytical", <<>>, somatic))]
        /\ UNCHANGED <<client, vocab, nested, somatic, started>>

\* temperature=0.3 if somatic.stress_level() > 0.7 else 0.5
AnalyticalTemperature(s) == IF stress_level(s) > 7000 THEN 3000 ELSE 5000

\* Lines 249-259: one generation, the update, the event
AnalyticalThink(r) ==
    LET f == frame[r]
    IN  /\ Resumable(r)
        /\ f.pc = "analytical_starting"
        /\ \/ /\ \E t \in (IF client THEN vocab.analytical ELSE {MockAnalysis(f.query)}) :
                    LET s == update_from_thought(somatic, t)
                    IN  /\ somatic' = s
                        /\ frame' = [frame EXCEPT ![r].pc = "analytical_thought",
                                                  ![r].analytical_thought = t]
                        /\ events' = [events EXCEPT ![r] =
                                        Append(@, AnalyticalEvent(t, s))]
                        /\ trace' = [trace EXCEPT ![r] =
                                        @ \o <<IF client
                                               THEN Generate("analytical", t, 1,
                                                        <<f.query>> \o f.intuitive_thoughts,
                                                        AnalyticalTemperature(somatic))
                                               ELSE Generate("analytical", t, 1, <<>>, Absent),
                                               Step("update", "analytical", t, s),
                                               Step("yield", "analytical", t, s)>>]
              /\ UNCHANGED <<client, vocab, nested, started>>
           \/ /\ client
              /\ Raise(r, "analytical")

-----------------------------------------------------------------------------
(* DialogueNode.converse *)

\* A parser that splits as soon as one of the two speaker tags is present
ParseDialogue_EitherTag(text) ==
    IF Has(text, "INTUITIVE:") \/ Has(text, "ANALYTICAL:")
    THEN LET parts == Split(text, "ANALYTICAL:")
             intuitive_part == Strip(Remove(parts[1], "INTUITIVE:"))
             analytical_part == IF Len(parts) > 1 THEN Strip(parts[2]) ELSE <<>>
         IN  << [speaker |-> "intuitive", content |-> intuitive_part],
                [speaker |-> "analytical", content |-> analytical_part] >>
    ELSE << [speaker |-> "dialogue", content |-> text] >>

\* Lines 156-165: the turns one response is parsed into
ParseDialogue(text) ==
    IF Has(text, "INTUITIVE:") /\ Has(text, "ANALYTICAL:")
    THEN LET parts == Split(text, "ANALYTICAL:")
             intuitive_part == Strip(Remove(parts[1], "INTUITIVE:"))
             analytical_part == IF Len(parts) > 1 THEN Strip(parts[2]) ELSE <<>>
         IN  << [speaker |-> "intuitive", content |-> intuitive_part],
                [speaker |-> "analytical", content |-> analytical_part] >>
    ELSE << [speaker |-> "dialogue", content |-> text] >>

\* The number of rounds without the stress test
dialogue_rounds_Always2(s) == 2

\* dialogue_rounds = 1 if self.somatic.stress_level() > 0.7 else 2
dialogue_rounds(s) == IF stress_level(s) > 7000 THEN 1 ELSE 2

\* Every round quotes the analytical text, whatever was said since
AnalyticalSaid_FirstOnly(f) == f.analytical_thought

\* The text the prompt of a round quotes as what the analytical mind said
AnalyticalSaid(f) ==
    IF f.round_num = 0
    THEN f.analytical_thought
    ELSE f.dialogue[Len(f.dialogue)].content

\* One pass of the loop body, lines 134-173
DialogueRound(r, rounds) ==
    LET f == frame[r]
        last == f.intuitive_thoughts[Len(f.intuitive_thoughts)]
    IN  \/ /\ client
           /\ \E text \in vocab.dialogue :
                /\ frame' = [frame EXCEPT ![r].pc = "dialogue_sleep",
                                          ![r].dialogue_rounds = rounds,
                                          ![r].dialogue = @ \o ParseDialogue(text),
                                          ![r].round_num = f.round_num + 1]
                /\ trace' = [trace EXCEPT ![r] = Append(@,
                                Generate("dialogue", text, Len(ParseDialogue(text)),
                                         <<f.query, last, AnalyticalSaid(f)>>, 6000))]
           /\ UNCHANGED <<client, vocab, nested, somatic, events, started>>
        \/ /\ ~client
           /\ frame' = [frame EXCEPT ![r].pc = "dialogue_sleep",
                                     ![r].dialogue_rounds = rounds,
                                     ![r].dialogue = @ \o MockDialogue(f.query),
                                     ![r].round_num = f.round_num + 1]
           /\ trace' = [trace EXCEPT ![r] = Append(@,
                            Generate("dialogue", <<>>, 2, <<>>, Absent))]
           /\ UNCHANGED <<client, vocab, nested, somatic, events, started>>
        \/ /\ client
           /\ Raise(r, "dialogue")

\* think() resumed after the "starting" marker: lines 263-266 fix the number of
\* rounds and call converse, which runs the first pass up to the sleep
DialogueEnter(r) ==
    /\ Resumable(r)
    /\ frame[r].pc = "dialogue_starting"
    /\ DialogueRound(r, dialogue_rounds(somatic))

\* Resumed from the sleep with rounds left
DialogueNext(r) ==
    /\ Resumable(r)
    /\ frame[r].pc = "dialogue_sleep"
    /\ frame[r].round_num < frame[r].dialogue_rounds
    /\ DialogueRound(r, frame[r].dialogue_rounds)

\* The marker of phase 3 with the phase name of phase 2
DialogueStart_WrongPhase(r) ==
    /\ Resumable(r)
    /\ frame[r].pc = "analytical_thought"
    /\ frame' = [frame EXCEPT ![r].pc = "dialogue_starting"]
    /\ events' = [events EXCEPT ![r] = Append(@, StartingEvent("analytical"))]
    /\ trace' = [trace EXCEPT ![r] = Append(@, Step("yield", "analytical", <<>>, somatic))]
    /\ UNCHANGED <<client, vocab, nested, somatic, started>>

\* Line 262
DialogueStart(r) ==
    /\ Resumable(r)
    /\ frame[r].pc = "analytical_thought"
    /\ frame' = [frame EXCEPT ![r].pc = "dialogue_starting"]
    /\ events' = [events EXCEPT ![r] = Append(@, StartingEvent("dialogue"))]
    /\ trace' = [trace EXCEPT ![r] = Append(@, Step("yield", "dialogue", <<>>, somatic))]
    /\ UNCHANGED <<client, vocab, nested, somatic, started>>

\* The exchange is yielded with the state read before its update
DialogueEmit_Stale(r) ==
    LET f == frame[r]
        exchange == f.dialogue[f.emitted + 1]
        s == update_from_thought(somatic, exchange.content)
    IN  /\ Resumable(r)
        /\ \/ f.pc = "dialogue_sleep" /\ f.round_num = f.dialogue_rounds
           \/ f.pc = "dialogue_exchange"
        /\ f.emitted < Len(f.dialogue)
        /\ somatic' = s
        /\ frame' = [frame EXCEPT ![r].pc = "dialogue_exchange",
                                  ![r].emitted = f.emitted + 1]
        /\ events' = [events EXCEPT ![r] = Append(@, DialogueEvent(exchange, somatic))]
        /\ trace' = [trace EXCEPT ![r] =
                        @ \o <<Step("update", "dialogue", exchange.content, s),
                               Step("yield", "dialogue", exchange.content, s)>>]
        /\ UNCHANGED <<client, vocab, nested, started>>

\* Lines 268-275: the next exchange is applied to the state and yielded
DialogueEmit(r) ==
    LET f == frame[r]
        exchange == f.dialogue[f.emitted + 1]
        s == update_from_thought(somatic, exchange.content)
    IN  /\ Resumable(r)
        /\ \/ f.pc = "dialogue_sleep" /\ f.round_num = f.dialogue_rounds
           \/ f.pc = "dialogue_exchange"
        /\ f.emitted < Len(f.dialogue)
        /\ somatic' = s
        /\ frame' = [frame EXCEPT ![r].pc = "dialogue_exchange",
                                  ![r].emitted = f.emitted + 1]
        /\ events' = [events EXCEPT ![r] = Append(@, DialogueEvent(exchange, s))]
        /\ trace' = [trace EXCEPT ![r] =
                        @ \o <<Step("update", "dialogue", exchange.content, s),
                               Step("yield", "dialogue", exchange.content, s)>>]
        /\ UNCHANGED <<client, vocab, nested, started>>

-----------------------------------------------------------------------------
(* synthesize and the end of think() *)

\* Line 278
SynthesisStart(r) ==
    LET f == frame[r]
    IN  /\ Resumable(r)
        /\ f.pc = "dialogue_exchange"
        /\ f.emitted = Len(f.dialogue)
        /\ frame' = [frame EXCEPT ![r].pc = "synthesis_starting"]
        /\ events' = [events EXCEPT ![r] = Append(@, StartingEvent("synthesis"))]
        /\ trace' = [trace EXCEPT ![r] = Append(@, Step("yield", "synthesis", <<>>, somatic))]
        /\ UNCHANGED <<client, vocab, nested, somatic, started>>

\* dialogue[-2:], the contents the synthesis prompt quotes
LastTwo(dialogue) ==
    LET n == Len(dialogue)
    IN  [k \in 1..Min(2, n) |-> dialogue[n - Min(2, n) + k].content]

\* A generator that returns after the synthesis call without yielding "complete"
Synthesize_Silent(r) ==
    LET f == frame[r]
    IN  /\ Resumable(r)
        /\ f.pc = "synthesis_starting"
        /\ \E t \in (IF client THEN vocab.synthesis ELSE {MockSynthesis(f.query)}) :
                /\ frame' = [frame EXCEPT ![r].pc = "closed"]
                /\ trace' = [trace EXCEPT ![r] =
                                @ \o <<Generate("synthesis", t, 1, <<>>, Absent),
                                       Step("return", "complete", <<>>, somatic)>>]
        /\ UNCHANGED <<client, vocab, nested, somatic, events, started>>

\* Lines 279-294: one generation, then the "complete" event
Synthesize(r) ==
    LET f == frame[r]
    IN  /\ Resumable(r)
        /\ f.pc = "synthesis_starting"
        /\ \/ /\ \E t \in (IF client THEN vocab.synthesis ELSE {MockSynthesis(f.query)}) :
                    /\ frame' = [frame EXCEPT ![r].pc = "complete"]
                    /\ events' = [events EXCEPT ![r] =
                                    Append(@, CompleteEvent(t, somatic))]
                    /\ trace' = [trace EXCEPT ![r] =
                                    @ \o <<IF client
                                           THEN Generate("synthesis", t, 1,
                                                    <<f.query>> \o f.intuitive_thoughts
                                                    \o <<f.analytical_thought>>
                                                    \o LastTwo(f.dialogue), 4000)
                                           ELSE Generate("synthesis", t, 1, <<>>, Absent),
                                           Step("yield", "complete", t, somatic)>>]
              /\ UNCHANGED <<client, vocab, nested, somatic, started>>
           \/ /\ client
              /\ Raise(r, "synthesis")

\* Resumed after the last yield: the generator function returns
Close(r) ==
    /\ Resumable(r)
    /\ frame[r].pc = "complete"
    /\ frame' = [frame EXCEPT ![r].pc = "closed"]
    /\ trace' = [trace EXCEPT ![r] = Append(@, Step("return", "complete", <<>>, somatic))]
    /\ UNCHANGED <<client, vocab, nested, somatic, events, started>>

-----------------------------------------------------------------------------
(* Specifications *)

Next ==
    \E r \in Runs :
        \/ Start(r)
        \/ IntuitiveEnter(r)
        \/ IntuitiveNext(r)
        \/ IntuitiveEmit(r)
        \/ AnalyticalStart(r)
        \/ AnalyticalThink(r)
        \/ DialogueStart(r)
        \/ DialogueEnter(r)
        \/ DialogueNext(r)
        \/ DialogueEmit(r)
        \/ SynthesisStart(r)
        \/ Synthesize(r)
        \/ Close(r)

\* One generator at a time, each consumed to its end before the next query
Spec == Init /\ [][Next]_vars

\* Two generators of the same MindGym, the second nested in the first
SpecShared == InitShared /\ [][Next]_vars

\* One generator at a time whose consumer keeps iterating (`async for`, line 327) and
\* whose sleeps and calls return: a step that can be taken is eventually taken
SpecLive == InitLive /\ [][Next]_vars /\ WF_vars(Next)

-----------------------------------------------------------------------------
(* The queries of a SomaticState, called on states of any field values *)

\* SomaticState(arousal, valence, coherence, tension): the fields in tenths, over
\* the documented ranges, on both sides of the 0.8 and 0.9 thresholds
QueriedStates ==
    [arousal : {0, 5000, One}, valence : {0 - One, 0 - 6000, 0, One},
     coherence : {0, 1000, 5000, One}, tension : {0, 9000, One}]

InitQuery ==
    /\ client = FALSE
    /\ vocab = Texts
    /\ nested = FALSE
    /\ somatic \in QueriedStates
    /\ frame = [r \in Runs |-> NewFrame]
    /\ events = [r \in Runs |-> <<>>]
    /\ trace = [r \in Runs |-> <<>>]
    /\ started = 0

\* Lines 289-291: stress_level() and needs_rest() are called and their values
\* reported; here twice at most, with no update in between
Metrics ==
    /\ Len(events["A"]) < 2
    /\ events' = [events EXCEPT !["A"] = Append(@, CompleteEvent(<<>>, somatic))]
    /\ trace' = [trace EXCEPT !["A"] = Append(@, Step("yield", "complete", <<>>, somatic))]
    /\ UNCHANGED <<client, vocab, nested, somatic, frame, started>>

SpecQuery == InitQuery /\ [][Metrics]_vars

-----------------------------------------------------------------------------
(* Properties *)

\* The place of a phase in the pipeline
PhaseRank(p) ==
    CASE p = "intuitive" -> 1
      [] p = "analytical" -> 2
      [] p = "dialogue" -> 3
      [] p = "synthesis" -> 4
      [] p = "complete" -> 5

\* The steps of a history that are calls of update_from_thought
Updates(t) == {p \in DOMAIN t : t[p].op = "update"}

\* C1: after every update_from_thought call of a run, arousal is in [0,1], valence
\* in [-1,1], coherence in [0,1] and tension in [0,1].
C1_FieldsInBounds ==
    /\ somatic.arousal >= 0 /\ somatic.arousal <= One
    /\ somatic.valence >= 0 - One /\ somatic.valence <= One
    /\ somatic.coherence >= 0 /\ somatic.coherence <= One
    /\ somatic.tension >= 0 /\ somatic.tension <= One

\* C2: the events of a run come in the phase order intuitive, analytical, dialogue,
\* synthesis, complete: no event of an earlier phase follows one of a later phase,
\* each phase's "starting" marker is emitted once and before the artifacts of the
\* phase, no phase is entered before the one before it has been entered and (for
\* phases 1-3) has delivered an artifact, and a run that ends normally has been
\* through all five.
C2_PhaseOrder ==
    \A r \in Runs :
        LET e == events[r]
            Marker(i) == e[i].kind = "starting"
        IN  /\ \A i, j \in DOMAIN e :
                i < j => PhaseRank(e[i].phase) <= PhaseRank(e[j].phase)
            /\ \A i, j \in DOMAIN e :
                (Marker(i) /\ Marker(j) /\ e[i].phase = e[j].phase) => i = j
            /\ \A i \in DOMAIN e :
                e[i].kind = "thought" =>
                    \E j \in 1..(i - 1) : Marker(j) /\ e[j].phase = e[i].phase
            /\ \A i \in DOMAIN e :
                e[i].kind = "complete" => \A j \in DOMAIN e : j <= i
            /\ \A i \in DOMAIN e :
                PhaseRank(e[i].phase) > 1 =>
                    \E j \in 1..(i - 1) :
                        /\ PhaseRank(e[j].phase) = PhaseRank(e[i].phase) - 1
                        /\ PhaseRank(e[j].phase) <= 3 => e[j].kind = "thought"
            /\ frame[r].pc \in {"complete", "closed"} =>
                /\ \A p \in {"intuitive", "analytical", "dialogue", "synthesis"} :
                    \E i \in DOMAIN e : Marker(i) /\ e[i].phase = p
                /\ e[Len(e)].kind = "complete"

\* A run has delivered all its events and its generator has returned
C2_Witness ==
    /\ frame["A"].pc = "closed"
    /\ Len(events["A"]) >= 10
    /\ events["A"][Len(events["A"])].phase = "complete"


\* The artifacts made by the generation steps of phase ph among the first n steps
RECURSIVE Made(_, _, _)
Made(t, ph, n) ==
    IF n = 0
    THEN 0
    ELSE Made(t, ph, n - 1)
         + (IF t[n].op = "generate" /\ t[n].phase = ph THEN t[n].made ELSE 0)

\* The update_from_thought calls for artifacts of phase ph among the first n steps
Applied(t, ph, n) == Cardinality({p \in Updates(t) : p <= n /\ t[p].phase = ph})

\* C3 as claimed: in phases 1-3 the artifacts made so far have all been applied to
\* the state before the next one is generated.
C3_UpdateBeforeNextGeneration ==
    \A r \in Runs :
        \A p \in DOMAIN trace[r] :
            (trace[r][p].op = "generate" /\ PhaseRank(trace[r][p].phase) <= 3) =>
                \A ph \in {"intuitive", "analytical", "dialogue"} :
                    Applied(trace[r], ph, p - 1) = Made(trace[r], ph, p - 1)

\* C3 amended: update_from_thought for an artifact is called right before the
\* artifact's event is yielded; when a generation is requested, the artifacts of
\* every earlier phase have all been applied to the state and none of the
\* artifacts of its own phase has: a burst, and the rounds of a dialogue, are
\* generated as a whole before the first of their updates.
C3_UpdateBeforeNextPhase ==
    \A r \in Runs :
        LET t == trace[r]
        IN  /\ \A p \in Updates(t) :
                /\ p < Len(t)
                /\ t[p + 1].op = "yield"
                /\ t[p + 1].text = t[p].text
                /\ t[p + 1].phase = t[p].phase
            /\ \A p \in DOMAIN t :
                t[p].op = "generate" =>
                    \A ph \in {"intuitive", "analytical", "dialogue"} :
                        Applied(t, ph, p - 1) =
                            IF PhaseRank(ph) < PhaseRank(t[p].phase)
                            THEN Made(t, ph, p - 1)
                            ELSE 0

\* The whole burst is generated and none of it applied yet; later the synthesis is
\* generated with everything applied
C3_Witness ==
    /\ frame["A"].pc = "complete"
    /\ Made(trace["A"], "intuitive", 5) = 3
    /\ Applied(trace["A"], "intuitive", 5) = 0
    /\ Applied(trace["A"], "dialogue", Len(trace["A"])) = 4

\* C4 as claimed: a run in which a generation call failed ends with a failure event.
C4_FailureEvent ==
    \A r \in Runs :
        frame[r].pc = "raised" =>
            /\ events[r] # <<>>
            /\ events[r][Len(events[r])].kind \notin {"starting", "thought", "complete"}

\* C4 amended: a failed generation call yields no event; the exception leaves the
\* generator, so the consumer's fetch raises right after the "starting" marker of
\* the failing phase, and no "complete" event was delivered; a generator that ends
\* without raising has delivered "complete" as its last event.
C4_FailureRaises ==
    \A r \in Runs :
        LET e == events[r]
            t == trace[r]
        IN  /\ \A p \in DOMAIN t :
                t[p].op = "raise" =>
                    /\ frame[r].pc = "raised"
                    /\ e # <<>>
                    /\ e[Len(e)] = StartingEvent(t[p].phase)
                    /\ \A i \in DOMAIN e : e[i].kind # "complete"
            /\ frame[r].pc = "raised" => t[Len(t)].op = "raise"
            /\ frame[r].pc = "closed" => e[Len(e)].kind = "complete"

\* The analytical generation failed after the three intuitive events
C4_Witness ==
    /\ frame["A"].pc = "raised"
    /\ Len(events["A"]) = 5
    /\ events["A"][5] = StartingEvent("analytical")

\* C5: a failed generation call aborts the run without retry: the failure is the
\* last step of the run, the generator is dead, and no event of a later phase and
\* no "complete" event has been emitted.
C5_FailureAborts ==
    \A r \in Runs :
        LET e == events[r]
            t == trace[r]
        IN  \A p \in DOMAIN t :
                t[p].op = "raise" =>
                    /\ p = Len(t)
                    /\ frame[r].pc = "raised"
                    /\ \A i \in DOMAIN e :
                        PhaseRank(e[i].phase) <= PhaseRank(t[p].phase)
                    /\ \A q \in 1..(p - 1) :
                        t[q].op = "generate" =>
                            PhaseRank(t[q].phase) <= PhaseRank(t[p].phase)

\* The second dialogue round failed: the run stopped in phase 3
C5_Witness ==
    /\ frame["A"].pc = "raised"
    /\ frame["A"].round_num = 1
    /\ trace["A"][Len(trace["A"])].phase = "dialogue"


\* The thought events among the first n events
Thoughts(e, n) == {i \in 1..n : e[i].kind = "thought"}

\* C6: within a run tension never decreases and every processed artifact raises it by
\* 0.02: after n artifacts it is min(1.0, 0.02 * n), in the state and in the events
\* that carry it.
C6_TensionPerArtifact ==
    LET e == events["A"]
    IN  /\ somatic.tension = Min(One, 200 * Cardinality(Updates(trace["A"])))
        /\ \A i \in DOMAIN e :
            e[i].tension # Absent =>
                e[i].tension = Min(One, 200 * Cardinality(Thoughts(e, i)))

\* Eight artifacts have been processed
C6_Witness ==
    /\ Cardinality(Updates(trace["A"])) = 8
    /\ somatic.tension = 1600

\* The state a run would be in had only its own artifacts been applied, in order,
\* to the defaults
RECURSIVE Replay(_, _)
Replay(e, n) ==
    IF n = 0
    THEN SomaticState
    ELSE IF e[n].kind = "thought"
         THEN update_from_thought(Replay(e, n - 1), e[n].thought)
         ELSE Replay(e, n - 1)

\* C7: the state of a run is its own: the somatic values and metrics of every event
\* of a run are those of the run's own artifacts, whatever another generator of the
\* same MindGym does in between.
C7_StateExclusive ==
    \A r \in Runs :
        \A i \in DOMAIN events[r] :
            LET ev == events[r][i]
                own == Replay(events[r], i)
            IN  /\ ev.stress # Absent => ev.stress = stress_level(own)
                /\ ev.coherence # Absent => ev.coherence = own.coherence
                /\ ev.tension # Absent => ev.tension = own.tension

\* C8: every run starts from the default state: from its "starting" marker until its
\* first artifact is applied, the state is SomaticState(), whatever the run before
\* left behind.
C8_StartsFromDefault ==
    \A r \in Runs :
        frame[r].pc \in {"intuitive_starting", "intuitive_sleep"} =>
            somatic = SomaticState

\* The second query on the same MindGym has generated its burst
C8_Witness ==
    /\ started = 2
    /\ frame["A"].pc = "intuitive_sleep"
    /\ frame["A"].i = 3

\* The generation requests (answered or failed) of phase ph in a history
Requests(t, ph) ==
    {p \in DOMAIN t : t[p].phase = ph /\ t[p].op \in {"generate", "raise"}}

Answered(t, ph) == {p \in DOMAIN t : t[p].phase = ph /\ t[p].op = "generate"}

First(S) == CHOOSE p \in S : \A q \in S : p <= q

\* The callee of phase ph has returned its list to think()
Returned(t, ph) ==
    \E p \in DOMAIN t :
        \/ t[p].phase = ph /\ t[p].op = "update"
        \/ PhaseRank(t[p].phase) > PhaseRank(ph)

\* C9: IntuitiveMind.think returns 3 fragments when stress_level() < 0.5 at its entry
\* and 2 otherwise; the size is fixed at entry, whatever happens to the state during
\* the burst.
C9_BurstSize ==
    \A r \in Runs :
        LET t == trace[r]
            size == IF t[First(Requests(t, "intuitive"))].stress < 5000 THEN 3 ELSE 2
        IN  Requests(t, "intuitive") # {} =>
                /\ Cardinality(Answered(t, "intuitive")) <= size
                /\ Cardinality(Answered(t, "intuitive")) = Len(frame[r].intuitive_thoughts)
                /\ frame[r].pc = "intuitive_sleep" => frame[r].burst_size = size
                /\ Returned(t, "intuitive") => Len(frame[r].intuitive_thoughts) = size

\* Generator A entered the burst under stress and returned 2 fragments, generator B
\* returned 3
C9_Witness ==
    /\ Returned(trace["A"], "intuitive")
    /\ Len(frame["A"].intuitive_thoughts) = 2
    /\ Len(frame["B"].intuitive_thoughts) = 3

\* C10: at phase-3 entry 1 round is requested when stress_level() > 0.7 and 2
\* otherwise; the count is taken after the update for the analytical artifact (from
\* the state that update left, when no other generator touched it) and is fixed for
\* the phase.
C10_DialogueRounds ==
    \A r \in Runs :
        LET t == trace[r]
            first == First(Requests(t, "dialogue"))
            rounds == IF t[first].stress > 7000 THEN 1 ELSE 2
        IN  Requests(t, "dialogue") # {} =>
                /\ \E q \in 1..(first - 1) :
                    /\ t[q].op = "update" /\ t[q].phase = "analytical"
                    /\ (r = "B" \/ frame["B"].pc = "new") => t[q].stress = t[first].stress
                /\ Cardinality(Answered(t, "dialogue")) <= rounds
                /\ Cardinality(Answered(t, "dialogue")) = frame[r].round_num
                /\ frame[r].pc = "dialogue_sleep" => frame[r].dialogue_rounds = rounds
                /\ Returned(t, "dialogue") => frame[r].round_num = rounds

\* Generator A entered phase 3 under stress and ran 1 round, generator B ran 2
C10_Witness ==
    /\ Returned(trace["A"], "dialogue")
    /\ frame["A"].round_num = 1
    /\ frame["B"].round_num = 2

-----------------------------------------------------------------------------
(* Parsing of the dialogue rounds *)

\* The response carries both speaker tags
Tagged(text) ==
    /\ \E i \in DOMAIN text : text[i] = "INTUITIVE:"
    /\ \E i \in DOMAIN text : text[i] = "ANALYTICAL:"

\* C11: a round whose generated text contains both speaker tags appends exactly two
\* turns, speaker "intuitive" first and "analytical" second; a text lacking one of
\* the tags appends exactly one turn, speaker "dialogue", holding the whole text; the
\* turns are in the dialogue list as soon as the call has returned (parsing never
\* fails), and the list has between rounds and 2 x rounds turns.
C11_ParsedTurns ==
    \A r \in Runs :
        LET t == trace[r]
            d == frame[r].dialogue
        IN  client =>
                /\ \A p \in Answered(t, "dialogue") :
                        LET at == Made(t, "dialogue", p - 1)
                        IN  /\ Len(d) >= at + t[p].made
                            /\ IF Tagged(t[p].text)
                               THEN /\ t[p].made = 2
                                    /\ d[at + 1].speaker = "intuitive"
                                    /\ d[at + 2].speaker = "analytical"
                               ELSE /\ t[p].made = 1
                                    /\ d[at + 1] = [speaker |-> "dialogue",
                                                    content |-> t[p].text]
                /\ Len(d) = Made(t, "dialogue", Len(t))
                /\ frame[r].round_num <= Len(d)
                /\ Len(d) <= 2 * frame[r].round_num

\* A run with one tagged and one untagged round went on to its "complete" event
C11_Witness ==
    /\ client
    /\ frame["A"].pc = "closed"
    /\ Len(frame["A"].dialogue) = 3
    /\ \E i \in 1..3 : frame["A"].dialogue[i].speaker = "dialogue"
    /\ events["A"][Len(events["A"])].kind = "complete"

-----------------------------------------------------------------------------
(* Termination *)

IsYield(step) == step.op = "yield"

\* Every event was yielded once, in the order of production; "complete" comes once
\* and last; a generator ends without it only where a generation call failed
Delivered(r) ==
    LET e == events[r]
        t == trace[r]
        y == SelectSeq(t, IsYield)
    IN  /\ Len(y) = Len(e)
        /\ \A i \in DOMAIN e : y[i].text = e[i].thought /\ y[i].phase = e[i].phase
        /\ \A i \in DOMAIN e :
                e[i].kind = "complete" => i = Len(e) /\ frame[r].pc \in {"complete", "closed"}
        /\ frame[r].pc = "closed" =>
                /\ e[Len(e)].kind = "complete"
                /\ \A p \in DOMAIN t : t[p].op # "raise"
                /\ t[Len(t)].op = "return"
        /\ frame[r].pc = "raised" => t[Len(t)].op = "raise"

\* C12: every run terminates, and one in which no generation call fails terminates
\* with "complete": the event sequence holds exactly one "complete" event, which is
\* the last, and every event is delivered exactly once and in production order.
C12_Terminates ==
    /\ [](\A r \in Runs : Delivered(r))
    /\ \A r \in Runs : Active(r) ~> (frame[r].pc \in {"closed", "raised"})

\* A run of full length has returned: 4 markers, 3 + 1 + 4 artifacts, "complete"
C12_Witness ==
    /\ frame["A"].pc = "closed"
    /\ Len(events["A"]) = 13
    /\ events["A"][13].kind = "complete"

-----------------------------------------------------------------------------
(* The rules of update_from_thought *)

ConfusionWords == {"confused", "Confused", "uncertain", "Uncertain"}
ClarityWords == {"clear", "Clear", "understand", "Understand"}
Mentions(text, words) == \E i \in DOMAIN text : text[i] \in words

\* The four rules as stated, applied in order, each with its cap at 1.0
CappedRules(s, text) ==
    LET confusion == Mentions(text, ConfusionWords)
        clarity == Mentions(text, ClarityWords)
        exclaimed == Mentions(text, {"!"})
        coherence1 == IF confusion THEN (s.coherence * 9) \div 10 ELSE s.coherence
        arousal1 == IF confusion THEN Min(One, s.arousal + 1000) ELSE s.arousal
        coherence2 == IF clarity THEN Min(One, (coherence1 * 11) \div 10) ELSE coherence1
        arousal2 == IF exclaimed THEN Min(One, arousal1 + 500) ELSE arousal1
    IN  [arousal |-> arousal2, valence |-> s.valence, coherence |-> coherence2,
         tension |-> Min(One, s.tension + 200)]

\* C13: every update_from_thought call leaves the state that the four rules give in
\* their fixed order: confusion (coherence x 0.9, arousal + 0.1 capped at 1.0), clarity
\* (coherence x 1.1 capped at 1.0), "!" (arousal + 0.05 capped at 1.0), tension + 0.02
\* capped at 1.0; from the defaults "confused" gives coherence 0.45 and arousal 0.6.
C13_RuleComposition ==
    LET t == trace["A"]
    IN  \A p \in Updates(t) : t[p].somatic = CappedRules(t[p - 1].somatic, t[p].text)

-----------------------------------------------------------------------------
(* Marker-free thoughts *)

MarkerFree(text) == ~Mentions(text, ConfusionWords \cup ClarityWords \cup {"!"})

\* C14: an artifact with no marker changes only tension (+ 0.02, capped): arousal,
\* valence and coherence are left as they were.  In a run whose intuitive fragments
\* are all marker-free there are 3 of them, and after the third update tension is
\* 0.06 and coherence still 0.5.
C14_MarkerFreeFrame ==
    LET t == trace["A"]
        f == frame["A"]
        plain == \A i \in DOMAIN f.intuitive_thoughts : MarkerFree(f.intuitive_thoughts[i])
    IN  /\ \A p \in Updates(t) :
                MarkerFree(t[p].text) =>
                    /\ t[p].somatic.arousal = t[p - 1].somatic.arousal
                    /\ t[p].somatic.valence = t[p - 1].somatic.valence
                    /\ t[p].somatic.coherence = t[p - 1].somatic.coherence
                    /\ t[p].somatic.tension = Min(One, t[p - 1].somatic.tension + 200)
        /\ plain /\ Returned(t, "intuitive") =>
                /\ f.burst_size = 3
                /\ Len(f.intuitive_thoughts) = 3
                /\ \A p \in Updates(t) :
                        t[p].phase = "intuitive" /\ Applied(t, "intuitive", p) = 3 =>
                            /\ t[p].somatic.tension = 600
                            /\ t[p].somatic.coherence = 5000

\* The intuitive phase of a run with three marker-free fragments is over
C14_Witness ==
    /\ frame["A"].pc = "intuitive_thought"
    /\ frame["A"].emitted = 3
    /\ \A i \in 1..3 : MarkerFree(frame["A"].intuitive_thoughts[i])
    /\ somatic.tension = 600

-----------------------------------------------------------------------------
(* The derived metrics *)

-----------------------------------------------------------------------------
(* One update per artifact *)

IsUpdate(step) == step.op = "update"
IsThought(event) == event.kind = "thought"

\* The artifacts generated so far, in the order of production
Artifacts(r) ==
    LET f == frame[r]
    IN  f.intuitive_thoughts
        \o (IF Answered(trace[r], "analytical") # {} THEN <<f.analytical_thought>> ELSE <<>>)
        \o [k \in DOMAIN f.dialogue |-> f.dialogue[k].content]

\* The state after one update for each of the first k artifacts, from the defaults
RECURSIVE AfterArtifacts(_, _)
AfterArtifacts(a, k) ==
    IF k = 0 THEN SomaticState ELSE update_from_thought(AfterArtifacts(a, k - 1), a[k])

\* C16: in a run update_from_thought is applied once per generated artifact, in the
\* order of production (the intuitive fragments, the analytical text, the dialogue
\* turns), and the values an artifact's event carries are those of the state after
\* the updates for exactly the artifacts up to and including that one.
C16_OneUpdatePerArtifact ==
    LET a == Artifacts("A")
        u == SelectSeq(trace["A"], IsUpdate)
        e == SelectSeq(events["A"], IsThought)
    IN  /\ Len(u) <= Len(a)
        /\ frame["A"].pc = "closed" => Len(u) = Len(a)
        /\ Len(e) = Len(u)
        /\ \A k \in DOMAIN u :
                LET s == AfterArtifacts(a, k)
                IN  /\ u[k].text = a[k]
                    /\ u[k].somatic = s
                    /\ e[k].thought = a[k]
                    /\ e[k].stress \in {Absent, stress_level(s)}
                    /\ e[k].coherence \in {Absent, s.coherence}
                    /\ e[k].tension \in {Absent, s.tension}
                    /\ e[k].phase = "intuitive" => e[k].stress # Absent /\ e[k].coherence # Absent
                    /\ e[k].phase = "analytical" => e[k].stress # Absent /\ e[k].tension # Absent
                    /\ e[k].phase = "dialogue" => e[k].coherence # Absent

\* A run of eight artifacts, the last of which changed the coherence, has returned
C16_Witness ==
    /\ frame["A"].pc = "closed"
    /\ Len(Artifacts("A")) = 8
    /\ \E i, j \in DOMAIN events["A"] :
            /\ events["A"][i].phase = "dialogue"
            /\ events["A"][j].phase = "dialogue"
            /\ events["A"][i].coherence # events["A"][j].coherence
            /\ events["A"][i].coherence # Absent
            /\ events["A"][j].coherence # Absent

-----------------------------------------------------------------------------
(* The prompts of the dialogue rounds *)

\* C17: the rounds of converse are generated one after another, each fed by the one
\* before: the first round's prompt quotes the last intuitive fragment and the
\* analytical text, every later round's prompt quotes the last intuitive fragment
\* and the content of the last turn the previous round appended.
C17_RoundsFeedForward ==
    LET t == trace["A"]
        f == frame["A"]
    IN  client =>
            \A p \in Answered(t, "dialogue") :
                LET at == Made(t, "dialogue", p - 1)
                    first == \A q \in Answered(t, "dialogue") : q >= p
                IN  /\ Len(t[p].prompt) = 3
                    /\ t[p].prompt[1] = f.query
                    /\ t[p].prompt[2] = f.intuitive_thoughts[Len(f.intuitive_thoughts)]
                    /\ first => at = 0 /\ t[p].prompt[3] = f.analytical_thought
                    /\ ~first => at > 0 /\ t[p].prompt[3] = f.dialogue[at].content

\* The second round was prompted with the closing turn of the first, which is not
\* the analytical text
C17_Witness ==
    LET t == trace["A"]
        f == frame["A"]
    IN  /\ client
        /\ f.round_num = 2
        /\ \E p \in Answered(t, "dialogue") :
                /\ t[p].prompt[3] # f.analytical_thought
                /\ t[p].prompt[3] = f.dialogue[2].content

-----------------------------------------------------------------------------
(* The branches on the state within one run *)

\* C18: in a run stress is below 0.5 when the intuitive phase is entered and at most
\* 0.7 when the dialogue phase is entered, whatever the texts: the burst size is 3
\* and 2 rounds are requested, and a run without failure makes exactly 3 fragments
\* and 2 rounds.
C18_BranchesNotTaken ==
    LET t == trace["A"]
        f == frame["A"]
    IN  /\ Requests(t, "intuitive") # {} =>
                /\ t[First(Requests(t, "intuitive"))].stress < 5000
                /\ f.burst_size \in {0, 3}
        /\ Answered(t, "intuitive") # {} => f.burst_size = 3
        /\ Requests(t, "dialogue") # {} =>
                /\ t[First(Requests(t, "dialogue"))].stress <= 7000
                /\ f.dialogue_rounds \in {0, 2}
        /\ Answered(t, "dialogue") # {} => f.dialogue_rounds = 2
        /\ f.pc = "closed" =>
                /\ Len(f.intuitive_thoughts) = 3
                /\ Cardinality(Answered(t, "intuitive")) = 3
                /\ f.round_num = 2
                /\ Cardinality(Answered(t, "dialogue")) = 2

\* A run that entered the dialogue phase at the highest stress four artifacts can
\* give (three fragments with a confusion marker and "!", a confused analysis:
\* arousal 1.05, coherence 0.328, stress 0.3528) has returned
C18_Witness ==
    LET t == trace["A"]
    IN  /\ frame["A"].pc = "closed"
        /\ t[First(Requests(t, "dialogue"))].stress = 3528

-----------------------------------------------------------------------------
(* The rest signal within one run *)

\* C19: the needs_rest metric of every "complete" event is false: a run applies at
\* most 8 updates, so tension is at most 0.16, valence stays 0.0 and stress never
\* exceeds 0.8.
C19_NeverNeedsRest ==
    LET t == trace["A"]
        e == events["A"]
    IN  /\ \A i \in DOMAIN e : e[i].kind = "complete" => ~e[i].needs_rest
        /\ Cardinality(Updates(t)) <= 8
        /\ \A p \in DOMAIN t :
                /\ t[p].somatic.tension = 200 * Cardinality({q \in Updates(t) : q <= p})
                /\ t[p].somatic.tension <= 1600
                /\ t[p].somatic.valence = 0
                /\ t[p].stress <= 8000

\* The run of the highest final stress (eight artifacts with a confusion marker,
\* the first three with "!": arousal 1.45, coherence 0.2151, stress 0.569, tension
\* 0.16) has yielded "complete"
C19_Witness ==
    LET e == events["A"]
    IN  /\ frame["A"].pc = "closed"
        /\ e[Len(e)].kind = "complete"
        /\ e[Len(e)].stress = 5690
        /\ somatic.tension = 1600
        /\ ~e[Len(e)].needs_rest

-----------------------------------------------------------------------------
(* A failure in the intuitive phase *)

\* C20: when a generation call of the intuitive phase fails, at whichever fragment
\* of the burst, the run has delivered only the intuitive "starting" marker, no
\* update has been applied and the state has its default values: the fragments
\* generated before the failure are in no event.
C20_IntuitiveFailure ==
    LET t == trace["A"]
        f == frame["A"]
    IN  f.pc = "raised" /\ t[Len(t)].phase = "intuitive" =>
            /\ events["A"] = <<StartingEvent("intuitive")>>
            /\ Updates(t) = {}
            /\ somatic = SomaticState
            /\ \A p \in DOMAIN t : t[p].somatic = SomaticState
            /\ Cardinality(Answered(t, "intuitive")) = Len(f.intuitive_thoughts)
            /\ Len(f.intuitive_thoughts) < 3

\* The third call of the burst failed after two fragments with markers were made
C20_Witness ==
    LET t == trace["A"]
        f == frame["A"]
    IN  /\ f.pc = "raised"
        /\ t[Len(t)].phase = "intuitive"
        /\ Len(f.intuitive_thoughts) = 2
        /\ ~MarkerFree(f.intuitive_thoughts[1])
        /\ ~MarkerFree(f.intuitive_thoughts[2])

====
